---- MODULE Spec2Model ----
(***************************************************************************)
(* Delivery management backend (FastAPI + Beanie/MongoDB).                 *)
(*                                                                         *)
(* The model follows backend/router.py, backend/services.py,               *)
(* backend/model.py and backend/enums.py.  Every request handler is one    *)
(* action; a handler that raises HTTPException leaves the database alone   *)
(* and only records the response.                                          *)
(*                                                                         *)
(* Units.  Time is counted in days (the only duration in the code is the   *)
(* 30-day token lifetime).  Coordinates are integers in micro-degrees.     *)
(* Distances are whole metres.                                             *)
(***************************************************************************)
EXTENDS Integers, Sequences, FiniteSets, TLC

(***************************************************************************)
(* Bounds of the model.                                                    *)
(***************************************************************************)
MaxOrders  == 1      \* orders the admin endpoint may create
MaxTicks   == 2      \* clock advances
MaxTokens  == 2      \* distinct tokens handed out by login
MaxRevoked == 2      \* distinct tokens in the token_blacklist collection

(***************************************************************************)
(* enums.py                                                                *)
(***************************************************************************)
ACTIVE     == "active"
INACTIVE   == "inactive"
DeliveryPersonStatus == {ACTIVE, INACTIVE}

PENDING    == "pending"
IN_TRANSIT == "in_transit"
REACHED    == "reached"
DELIVERED  == "delivered"
CANCELLED  == "cancelled"
OrderStatus == {PENDING, IN_TRANSIT, REACHED, DELIVERED, CANCELLED}

(***************************************************************************)
(* Identifiers.  A delivery person is identified by its document id; the   *)
(* e-mail address is unique per person, so one name stands for both.       *)
(* GhostId is a well-formed id for which no document is ever inserted.     *)
(* InvalidId stands for a string PydanticObjectId() refuses.               *)
(***************************************************************************)
AgentIds   == {"a1", "a2"}
GhostId    == "ghost"
NoAgent    == "None"
MalformedAgentId == "not-an-objectid"
OrderIds   == 1..MaxOrders
InvalidId  == 0
None       == -1
NoProof    == <<>>
NoFile     == "no-file"
Files      == {"proof.jpg"}

(***************************************************************************)
(* services.py: calculate_distance, in fixed point.                        *)
(*                                                                         *)
(* Angles differences are carried in 1e-10 rad, the half-angle sines in    *)
(* 1e-8, cosines in 1e-4.  For the separations used here (below 2 km)      *)
(* sin(x) = x and atan2(sqrt(a), sqrt(1 - a)) = sqrt(a) to far below the    *)
(* resolution of the result, which is rounded up to whole metres.          *)
(* Scaling divisions truncate toward zero, which keeps the sign symmetry   *)
(* of IEEE arithmetic.                                                     *)
(***************************************************************************)
R  == 6371000
PI == 31416

TDiv(x, s) == IF x < 0 THEN -((-x) \div s) ELSE x \div s

RECURSIVE SqrtIter(_, _, _)
SqrtIter(n, lo, hi) ==
    IF hi - lo <= 1 THEN lo
    ELSE LET mid == (lo + hi) \div 2
         IN  IF mid * mid <= n THEN SqrtIter(n, mid, hi) ELSE SqrtIter(n, lo, mid)

Sqrt(n) == SqrtIter(n, 0, 46341)

Radians(deg) == TDiv(deg * PI, 180)

Sin(x) == TDiv(x, 100)

Cos(lat) ==
    LET x  == TDiv(TDiv(TDiv(lat, 1000) * PI, 180), 1000)
        x2 == x * x
    IN  10000 - (x2 \div 20000) + (((x2 \div 10000) * (x2 \div 10000)) \div 240000)

calculate_distance_one_latitude(lat1, lon1, lat2, lon2) ==
    LET delta_phi    == Radians(lat2 - lat1)
        delta_lambda == Radians(lon2 - lon1)
        s1 == Sin(TDiv(delta_phi, 2))
        s2 == Sin(TDiv(delta_lambda, 2))
        cc == (Cos(lat1) * Cos(lat1)) \div 10000
        a  == s1 * s1 + ((((s2 * s2) \div 100) * (cc \div 10)) \div 10)
        c  == 2 * Sqrt(a)
    IN  ((R \div 1000) * c + 99999) \div 100000

calculate_distance(lat1, lon1, lat2, lon2) ==
    LET delta_phi    == Radians(lat2 - lat1)
        delta_lambda == Radians(lon2 - lon1)
        s1 == Sin(TDiv(delta_phi, 2))
        s2 == Sin(TDiv(delta_lambda, 2))
        cc == (Cos(lat1) * Cos(lat2)) \div 10000
        a  == s1 * s1 + ((((s2 * s2) \div 100) * (cc \div 10)) \div 10)
        c  == 2 * Sqrt(a)
    IN  ((R \div 1000) * c + 99999) \div 100000

Threshold == 100

(***************************************************************************)
(* Positions, as LocationTrack / OrderCreate carry them (latitude,         *)
(* longitude).  Dest is the order location of verify_flow.py, Far its      *)
(* "1km away" ping; Edge lies 99.5 m and Outside 100.6 m north of Dest.    *)
(***************************************************************************)
Dest    == [latitude |-> 12971600, longitude |-> 77594600]
Far     == [latitude |-> 12980000, longitude |-> 77600000]
Edge    == [latitude |-> 12972495, longitude |-> 77594600]
Outside == [latitude |-> 12972505, longitude |-> 77594600]

Destinations == {Dest}
PingPoints   == {Edge, Far}

GeoObject(longitude, latitude) == <<longitude, latitude>>

(***************************************************************************)
(* Tokens.  A JWT is its payload plus whether the signature verifies.      *)
(***************************************************************************)
TokenTTL == 30
TickStep == TokenTTL \div 2

VARIABLES
    delivery_persons,    \* collection "delivery_persons": id -> document
    orders,              \* collection "orders": id -> document
    location_tracking,   \* collection "location_tracking": the documents stored
    token_blacklist,     \* collection "token_blacklist": the tokens stored
    now,                 \* the clock, in days
    issued,              \* tokens returned by login, held by clients
    geofence_history,    \* history: per order, what the geofence has done to it
    ever_delivered,      \* history: the orders that have been stored as delivered
    flow,                \* history: per order, how far test_flow's requests have got
    in_flight,           \* requests between their read and their write
    resp                 \* the response to the latest request

vars == <<delivery_persons, orders, location_tracking, token_blacklist,
          now, issued, geofence_history, ever_delivered, flow, in_flight,
          resp>>

history == <<geofence_history, ever_delivered, flow>>

db == <<delivery_persons, orders, location_tracking, token_blacklist, issued>>

\* flow[o] = n: since order o was created, exactly the first n requests of
\* verify_flow.py's test_flow have been made, by its delivery person.
Off == -1

\* Each client has at most one ping and one order request under way.
Idle       == [op |-> "idle"]
Slots      == AgentIds \X {"ping", "order"}
NoRequests == [s \in Slots |-> Idle]

create_token(delivery_person_id) ==
    [sub |-> delivery_person_id, exp |-> now + TokenTTL, signed |-> TRUE]

Garbage    == [sub |-> "", exp |-> 0, signed |-> FALSE]
GhostToken == [sub |-> GhostId, exp |-> TokenTTL * (MaxTicks + 2), signed |-> TRUE]
NoSubToken == [sub |-> "", exp |-> TokenTTL * (MaxTicks + 2), signed |-> TRUE]
Forged     == {Garbage, GhostToken, NoSubToken}

Credentials == issued \cup Forged

(***************************************************************************)
(* Responses                                                               *)
(***************************************************************************)
Response(op, status_code, detail) ==
    [op |-> op, status_code |-> status_code, detail |-> detail, updated_orders |-> 0]

HTTPException(op, status_code, detail) ==
    /\ resp' = Response(op, status_code, detail)
    /\ UNCHANGED <<db, now>>

(***************************************************************************)
(* services.py: get_current_user                                           *)
(***************************************************************************)
Authenticated(id) == [ok |-> TRUE,  id |-> id,      detail |-> ""]
Unauthorized(d)   == [ok |-> FALSE, id |-> NoAgent, detail |-> d]

get_current_user_without_blacklist(token) ==
    IF ~token.signed THEN Unauthorized("Invalid token")
    ELSE IF token.exp <= now THEN Unauthorized("Token expired")
    ELSE IF token.sub = "" THEN Unauthorized("Invalid token")
    ELSE IF token.sub \notin DOMAIN delivery_persons THEN Unauthorized("User not found")
    ELSE Authenticated(token.sub)

get_current_user_decode_first(token) ==
    IF ~token.signed THEN Unauthorized("Invalid token")
    ELSE IF token.exp <= now THEN Unauthorized("Token expired")
    ELSE IF token \in token_blacklist THEN Unauthorized("Token has been revoked")
    ELSE IF token.sub = "" THEN Unauthorized("Invalid token")
    ELSE IF token.sub \notin DOMAIN delivery_persons THEN Unauthorized("User not found")
    ELSE Authenticated(token.sub)

get_current_user_at_expiry(token) ==
    IF token \in token_blacklist THEN Unauthorized("Token has been revoked")
    ELSE IF ~token.signed THEN Unauthorized("Invalid token")
    ELSE IF token.exp < now THEN Unauthorized("Token expired")
    ELSE IF token.sub = "" THEN Unauthorized("Invalid token")
    ELSE IF token.sub \notin DOMAIN delivery_persons THEN Unauthorized("User not found")
    ELSE Authenticated(token.sub)

get_current_user(token) ==
    IF token \in token_blacklist THEN Unauthorized("Token has been revoked")
    ELSE IF ~token.signed THEN Unauthorized("Invalid token")
    ELSE IF token.exp <= now THEN Unauthorized("Token expired")
    ELSE IF token.sub = "" THEN Unauthorized("Invalid token")
    ELSE IF token.sub \notin DOMAIN delivery_persons THEN Unauthorized("User not found")
    ELSE Authenticated(token.sub)

(***************************************************************************)
(* router.py: register, login, logout                                      *)
(***************************************************************************)
register(email) ==
    IF email \in DOMAIN delivery_persons
    THEN HTTPException("register", 400, "Email already registered")
    ELSE /\ delivery_persons' =
                [p \in DOMAIN delivery_persons \cup {email} |->
                    IF p = email
                    THEN [status |-> INACTIVE, is_location_on |-> FALSE]
                    ELSE delivery_persons[p]]
         /\ resp' = Response("register", 200, "")
         /\ UNCHANGED <<orders, location_tracking, token_blacklist, now, issued>>

login_unrevoking(email, password_ok) ==
    IF email \notin DOMAIN delivery_persons \/ ~password_ok
    THEN HTTPException("login", 401, "Invalid email or password")
    ELSE /\ Cardinality(issued \cup {create_token(email)}) <= MaxTokens
         /\ issued' = issued \cup {create_token(email)}
         /\ token_blacklist' = {t \in token_blacklist : t.sub # email}
         /\ resp' = Response("login", 200, "")
         /\ UNCHANGED <<delivery_persons, orders, location_tracking, now>>

login(email, password_ok) ==
    IF email \notin DOMAIN delivery_persons
    THEN HTTPException("login", 401, "Invalid email or password")
    ELSE IF ~password_ok
    THEN HTTPException("login", 401, "Invalid email or password")
    ELSE /\ Cardinality(issued \cup {create_token(email)}) <= MaxTokens
         /\ issued' = issued \cup {create_token(email)}
         /\ resp' = Response("login", 200, "")
         /\ UNCHANGED <<delivery_persons, orders, location_tracking,
                        token_blacklist, now>>

logout_validating(token) ==
    LET user == get_current_user(token)
    IN  IF ~user.ok THEN HTTPException("get_current_user", 401, user.detail)
        ELSE /\ Cardinality(token_blacklist \cup {token}) <= MaxRevoked
             /\ token_blacklist' = token_blacklist \cup {token}
             /\ resp' = Response("logout", 200, "Successfully logged out")
             /\ UNCHANGED <<delivery_persons, orders, location_tracking, now,
                            issued>>

logout_forgetting(token) ==
    /\ resp' = Response("logout", 200, "Successfully logged out")
    /\ UNCHANGED <<delivery_persons, orders, location_tracking, token_blacklist,
                   now, issued>>

logout_everywhere(token) ==
    LET revoked == token_blacklist \cup {token}
                      \cup {t \in issued : t.sub = token.sub}
    IN  /\ Cardinality(revoked) <= MaxRevoked
        /\ token_blacklist' = revoked
        /\ resp' = Response("logout", 200, "Successfully logged out")
        /\ UNCHANGED <<delivery_persons, orders, location_tracking, now,
                       issued>>

logout(token) ==
    /\ Cardinality(token_blacklist \cup {token}) <= MaxRevoked
    /\ token_blacklist' = token_blacklist \cup {token}
    /\ resp' = Response("logout", 200, "Successfully logged out")
    /\ UNCHANGED <<delivery_persons, orders, location_tracking, now,
                   issued>>

(***************************************************************************)
(* router.py: update_status, update_location_status, get_profile           *)
(***************************************************************************)
update_status_cancelling(token, status) ==
    LET user == get_current_user(token)
    IN  IF ~user.ok THEN HTTPException("get_current_user", 401, user.detail)
        ELSE /\ delivery_persons' =
                    [delivery_persons EXCEPT ![user.id].status = status]
             /\ orders' = [o \in DOMAIN orders |->
                    IF /\ status = INACTIVE
                       /\ orders[o].delivery_person_id = user.id
                       /\ orders[o].status = PENDING
                    THEN [orders[o] EXCEPT !.status = CANCELLED]
                    ELSE orders[o]]
             /\ resp' = Response("update_status", 200, "")
             /\ UNCHANGED <<location_tracking, token_blacklist, now, issued>>

update_status(token, status) ==
    LET user == get_current_user(token)
    IN  IF ~user.ok THEN HTTPException("get_current_user", 401, user.detail)
        ELSE /\ delivery_persons' =
                    [delivery_persons EXCEPT ![user.id].status = status]
             /\ resp' = Response("update_status", 200, "")
             /\ UNCHANGED <<orders, location_tracking, token_blacklist, now,
                            issued>>

update_location_status(token, is_location_on) ==
    LET user == get_current_user(token)
    IN  IF ~user.ok THEN HTTPException("get_current_user", 401, user.detail)
        ELSE /\ delivery_persons' =
                    [delivery_persons EXCEPT ![user.id].is_location_on = is_location_on]
             /\ resp' = Response("update_location_status", 200, "")
             /\ UNCHANGED <<orders, location_tracking, token_blacklist, now,
                            issued>>

get_profile(token) ==
    LET user == get_current_user(token)
    IN  IF ~user.ok THEN HTTPException("get_current_user", 401, user.detail)
        ELSE /\ resp' = Response("get_profile", 200, user.id)
             /\ UNCHANGED <<db, now>>

(***************************************************************************)
(* router.py: track_location                                               *)
(***************************************************************************)
active_orders_with_reached(delivery_person_id) ==
    {o \in DOMAIN orders :
        /\ orders[o].delivery_person_id = delivery_person_id
        /\ orders[o].status \in {IN_TRANSIT, PENDING, REACHED}}

active_orders_not_cancelled(delivery_person_id) ==
    {o \in DOMAIN orders :
        /\ orders[o].delivery_person_id = delivery_person_id
        /\ orders[o].status # CANCELLED}

active_orders_of_anyone(delivery_person_id) ==
    {o \in DOMAIN orders : orders[o].status \in {IN_TRANSIT, PENDING}}

active_orders(delivery_person_id) ==
    {o \in DOMAIN orders :
        /\ orders[o].delivery_person_id = delivery_person_id
        /\ orders[o].status \in {IN_TRANSIT, PENDING}}

within_threshold_everywhere(location, order) == TRUE

within_threshold_strict(location, order) ==
    calculate_distance(location.latitude, location.longitude,
                       order.delivery_location[2], order.delivery_location[1])
        < Threshold

within_threshold_two_km(location, order) ==
    LET order_lon == order.delivery_location[1]
        order_lat == order.delivery_location[2]
        distance  == calculate_distance(location.latitude, location.longitude,
                                        order_lat, order_lon)
    IN  distance <= 20 * Threshold

within_threshold(location, order) ==
    LET order_lon == order.delivery_location[1]
        order_lat == order.delivery_location[2]
        distance  == calculate_distance(location.latitude, location.longitude,
                                        order_lat, order_lon)
    IN  distance <= Threshold

track_location_when_reached(token, location) ==
    LET user == get_current_user(token)
    IN  IF ~user.ok THEN HTTPException("get_current_user", 401, user.detail)
        ELSE LET location_data ==
                     [delivery_person_id |-> user.id,
                      current_location   |-> GeoObject(location.longitude,
                                                       location.latitude),
                      timestamp          |-> now]
                 updated == {o \in active_orders(user.id) :
                                within_threshold(location, orders[o])}
             IN  /\ location_tracking' =
                        IF updated = {} THEN location_tracking
                        ELSE location_tracking \cup {location_data}
                 /\ orders' = [o \in DOMAIN orders |->
                                 IF o \in updated
                                 THEN [orders[o] EXCEPT !.status = REACHED]
                                 ELSE orders[o]]
                 /\ resp' = [Response("track_location", 200,
                                      "Location tracked successfully")
                                EXCEPT !.updated_orders = Cardinality(updated)]
                 /\ UNCHANGED <<delivery_persons, token_blacklist, now, issued>>

track_location(token, location) ==
    LET user == get_current_user(token)
    IN  IF ~user.ok THEN HTTPException("get_current_user", 401, user.detail)
        ELSE LET location_data ==
                     [delivery_person_id |-> user.id,
                      current_location   |-> GeoObject(location.longitude,
                                                       location.latitude),
                      timestamp          |-> now]
                 updated == {o \in active_orders(user.id) :
                                within_threshold(location, orders[o])}
             IN  /\ location_tracking' = location_tracking \cup {location_data}
                 /\ orders' = [o \in DOMAIN orders |->
                                 IF o \in updated
                                 THEN [orders[o] EXCEPT !.status = REACHED]
                                 ELSE orders[o]]
                 /\ resp' = [Response("track_location", 200,
                                      "Location tracked successfully")
                                EXCEPT !.updated_orders = Cardinality(updated)]
                 /\ UNCHANGED <<delivery_persons, token_blacklist, now, issued>>

(***************************************************************************)
(* router.py: update_order_status, complete_order                          *)
(***************************************************************************)
find_one_any_owner(order_id, delivery_person_id) ==
    order_id \in DOMAIN orders

find_one_or_unassigned(order_id, delivery_person_id) ==
    /\ order_id \in DOMAIN orders
    /\ orders[order_id].delivery_person_id \in {delivery_person_id, NoAgent}

find_one(order_id, delivery_person_id) ==
    /\ order_id \in DOMAIN orders
    /\ orders[order_id].delivery_person_id = delivery_person_id

update_order_status_unguarded(token, order_id, status) ==
    LET user == get_current_user(token)
    IN  IF ~user.ok THEN HTTPException("get_current_user", 401, user.detail)
        ELSE IF order_id = InvalidId
        THEN HTTPException("update_order_status", 400, "Invalid ID")
        ELSE IF ~find_one(order_id, user.id)
        THEN HTTPException("update_order_status", 404, "Order not found")
        ELSE /\ orders' = [orders EXCEPT ![order_id] =
                    [@ EXCEPT !.status = status,
                              !.delivered_at =
                                  IF status = DELIVERED THEN now ELSE @]]
             /\ resp' = Response("update_order_status", 200,
                                 "Order status updated successfully")
             /\ UNCHANGED <<delivery_persons, location_tracking,
                            token_blacklist, now, issued>>

update_order_status_rejecting_same(token, order_id, status) ==
    LET user == get_current_user(token)
    IN  IF ~user.ok THEN HTTPException("get_current_user", 401, user.detail)
        ELSE IF order_id = InvalidId
        THEN HTTPException("update_order_status", 400, "Invalid ID")
        ELSE IF ~find_one(order_id, user.id)
        THEN HTTPException("update_order_status", 404, "Order not found")
        ELSE IF \/ status = DELIVERED /\ orders[order_id].status # REACHED
                \/ status = orders[order_id].status
        THEN HTTPException("update_order_status", 400,
                 "Order must be 'reached' before it can be 'delivered'")
        ELSE /\ orders' = [orders EXCEPT ![order_id] =
                    [@ EXCEPT !.status = status,
                              !.delivered_at =
                                  IF status = DELIVERED THEN now ELSE @]]
             /\ resp' = Response("update_order_status", 200,
                                 "Order status updated successfully")
             /\ UNCHANGED <<delivery_persons, location_tracking,
                            token_blacklist, now, issued>>

update_order_status(token, order_id, status) ==
    LET user == get_current_user(token)
    IN  IF ~user.ok THEN HTTPException("get_current_user", 401, user.detail)
        ELSE IF order_id = InvalidId
        THEN HTTPException("update_order_status", 400, "Invalid ID")
        ELSE IF ~find_one(order_id, user.id)
        THEN HTTPException("update_order_status", 404, "Order not found")
        ELSE IF status = DELIVERED /\ orders[order_id].status # REACHED
        THEN HTTPException("update_order_status", 400,
                 "Order must be 'reached' before it can be 'delivered'")
        ELSE /\ orders' = [orders EXCEPT ![order_id] =
                    [@ EXCEPT !.status = status,
                              !.delivered_at =
                                  IF status = DELIVERED THEN now ELSE @]]
             /\ resp' = Response("update_order_status", 200,
                                 "Order status updated successfully")
             /\ UNCHANGED <<delivery_persons, location_tracking,
                            token_blacklist, now, issued>>

file_ext(file) == IF file = "proof.jpg" THEN "jpg" ELSE file

proof_path(order_id, file) == <<"/uploads/", order_id, now, file_ext(file)>>

complete_order_unguarded(token, order_id, file) ==
    LET user == get_current_user(token)
    IN  IF ~user.ok THEN HTTPException("get_current_user", 401, user.detail)
        ELSE IF file = NoFile
        THEN HTTPException("complete_order", 422, "Field required")
        ELSE IF order_id = InvalidId
        THEN HTTPException("complete_order", 400, "Invalid ID")
        ELSE IF ~find_one(order_id, user.id)
        THEN HTTPException("complete_order", 404, "Order not found")
        ELSE /\ orders' = [orders EXCEPT ![order_id] =
                    [@ EXCEPT !.proof_image  = proof_path(order_id, file),
                              !.status       = DELIVERED,
                              !.delivered_at = now]]
             /\ resp' = Response("complete_order", 200,
                                 "Order completed successfully")
             /\ UNCHANGED <<delivery_persons, location_tracking,
                            token_blacklist, now, issued>>

complete_order(token, order_id, file) ==
    LET user == get_current_user(token)
    IN  IF ~user.ok THEN HTTPException("get_current_user", 401, user.detail)
        ELSE IF file = NoFile
        THEN HTTPException("complete_order", 422, "Field required")
        ELSE IF order_id = InvalidId
        THEN HTTPException("complete_order", 400, "Invalid ID")
        ELSE IF ~find_one(order_id, user.id)
        THEN HTTPException("complete_order", 404, "Order not found")
        ELSE IF orders[order_id].status # REACHED
        THEN HTTPException("complete_order", 400,
                 "Order must be 'reached' before completion")
        ELSE /\ orders' = [orders EXCEPT ![order_id] =
                    [@ EXCEPT !.proof_image  = proof_path(order_id, file),
                              !.status       = DELIVERED,
                              !.delivered_at = now]]
             /\ resp' = Response("complete_order", 200,
                                 "Order completed successfully")
             /\ UNCHANGED <<delivery_persons, location_tracking,
                            token_blacklist, now, issued>>

(***************************************************************************)
(* router.py: create_order (admin endpoint, no authentication)             *)
(***************************************************************************)
new_order_id == Cardinality(DOMAIN orders) + 1

create_order_unvalidated(delivery_person_id, location) ==
    /\ new_order_id \in OrderIds
    /\ orders' = [o \in DOMAIN orders \cup {new_order_id} |->
           IF o = new_order_id
           THEN [status             |-> PENDING,
                 delivery_person_id |-> delivery_person_id,
                 delivery_location  |-> GeoObject(location.longitude,
                                                  location.latitude),
                 proof_image        |-> NoProof,
                 delivered_at       |-> None]
           ELSE orders[o]]
    /\ resp' = Response("create_order", 200, "")
    /\ UNCHANGED <<delivery_persons, location_tracking, token_blacklist,
                   now, issued>>

create_order(delivery_person_id, location) ==
    IF delivery_person_id = MalformedAgentId
    THEN HTTPException("create_order", 400, "Invalid delivery person ID")
    ELSE IF delivery_person_id # NoAgent
            /\ delivery_person_id \notin DOMAIN delivery_persons
    THEN HTTPException("create_order", 404, "Delivery person not found")
    ELSE IF delivery_person_id # NoAgent
            /\ delivery_persons[delivery_person_id].status # ACTIVE
    THEN HTTPException("create_order", 400,
             "Delivery person is inactive and cannot be assigned orders")
    ELSE /\ new_order_id \in OrderIds
         /\ orders' = [o \in DOMAIN orders \cup {new_order_id} |->
                IF o = new_order_id
                THEN [status             |-> PENDING,
                      delivery_person_id |-> delivery_person_id,
                      delivery_location  |-> GeoObject(location.longitude,
                                                       location.latitude),
                      proof_image        |-> NoProof,
                      delivered_at       |-> None]
                ELSE orders[o]]
         /\ resp' = Response("create_order", 200, "")
         /\ UNCHANGED <<delivery_persons, location_tracking, token_blacklist,
                        now, issued>>

(***************************************************************************)
(* The order requests as the server runs them.  The handlers are           *)
(* coroutines: another request can run at each await.  A request reads the *)
(* orders into documents of its own (find, find_one), decides on them, and *)
(* writes them back later (save); Document.save() writes every field of    *)
(* the request's document and compares nothing with what is stored.  A     *)
(* save that raises ends the request: no handler catches it.               *)
(***************************************************************************)
Slot(delivery_person_id, kind) == <<delivery_person_id, kind>>

InternalServerError(op, slot) ==
    /\ resp' = Response(op, 500, "Internal Server Error")
    /\ in_flight' = [in_flight EXCEPT ![slot] = Idle]
    /\ UNCHANGED <<db, now>>

\* track_location up to its first save: the ping is stored, the candidate
\* orders are read, and those within the threshold are left to be saved.
track_location_find(token, location) ==
    LET user == get_current_user(token)
    IN  IF ~user.ok
        THEN HTTPException("get_current_user", 401, user.detail)
             /\ UNCHANGED in_flight
        ELSE LET slot == Slot(user.id, "ping")
                 location_data ==
                     [delivery_person_id |-> user.id,
                      current_location   |-> GeoObject(location.longitude,
                                                       location.latitude),
                      timestamp          |-> now]
                 found == {o \in active_orders(user.id) :
                              within_threshold(location, orders[o])}
             IN  /\ in_flight[slot].op = "idle"
                 /\ location_tracking' = location_tracking \cup {location_data}
                 /\ IF found = {}
                    THEN /\ resp' = Response("track_location", 200,
                                             "Location tracked successfully")
                         /\ UNCHANGED in_flight
                    ELSE /\ in_flight' = [in_flight EXCEPT ![slot] =
                                [op            |-> "track_location",
                                 active_orders |-> [o \in found |-> orders[o]],
                                 updated_count |-> 0]]
                         /\ UNCHANGED resp
                 /\ UNCHANGED <<delivery_persons, orders, token_blacklist, now,
                                issued>>

\* One turn of the loop: order.status = REACHED; await order.save().  After
\* the last one the summary is returned.
track_location_save(delivery_person_id, order_id, saved) ==
    LET slot == Slot(delivery_person_id, "ping")
        req  == in_flight[slot]
        rest == DOMAIN req.active_orders \ {order_id}
    IN  /\ req.op = "track_location"
        /\ order_id \in DOMAIN req.active_orders
        /\ IF ~saved
           THEN InternalServerError("track_location", slot)
           ELSE /\ orders' = [orders EXCEPT ![order_id] =
                       [req.active_orders[order_id] EXCEPT !.status = REACHED]]
                /\ IF rest = {}
                   THEN /\ resp' = [Response("track_location", 200,
                                             "Location tracked successfully")
                                       EXCEPT !.updated_orders =
                                                  req.updated_count + 1]
                        /\ in_flight' = [in_flight EXCEPT ![slot] = Idle]
                   ELSE /\ in_flight' = [in_flight EXCEPT ![slot] =
                               [req EXCEPT
                                   !.active_orders =
                                       [o \in rest |-> req.active_orders[o]],
                                   !.updated_count = @ + 1]]
                        /\ UNCHANGED resp
                /\ UNCHANGED <<delivery_persons, location_tracking,
                               token_blacklist, now, issued>>

update_order_status_find_unassigning(token, order_id, status) ==
    LET user == get_current_user(token)
        slot == Slot(user.id, "order")
    IN  IF ~user.ok
        THEN HTTPException("get_current_user", 401, user.detail)
             /\ UNCHANGED in_flight
        ELSE IF order_id = InvalidId
        THEN HTTPException("update_order_status", 400, "Invalid ID")
             /\ UNCHANGED in_flight
        ELSE IF ~find_one(order_id, user.id)
        THEN HTTPException("update_order_status", 404, "Order not found")
             /\ UNCHANGED in_flight
        ELSE IF status = DELIVERED /\ orders[order_id].status # REACHED
        THEN HTTPException("update_order_status", 400,
                 "Order must be 'reached' before it can be 'delivered'")
             /\ UNCHANGED in_flight
        ELSE /\ in_flight[slot].op = "idle"
             /\ in_flight' = [in_flight EXCEPT ![slot] =
                    [op       |-> "update_order_status",
                     order_id |-> order_id,
                     read     |-> orders[order_id],
                     order    |-> [orders[order_id] EXCEPT
                                     !.status = status,
                                     !.delivery_person_id =
                                         IF status = CANCELLED THEN NoAgent ELSE @,
                                     !.delivered_at =
                                         IF status = DELIVERED THEN now ELSE @]]]
             /\ UNCHANGED <<db, now, resp>>

\* update_order_status up to its save: the order is read and the guard is
\* evaluated on the document read.
update_order_status_find(token, order_id, status) ==
    LET user == get_current_user(token)
        slot == Slot(user.id, "order")
    IN  IF ~user.ok
        THEN HTTPException("get_current_user", 401, user.detail)
             /\ UNCHANGED in_flight
        ELSE IF order_id = InvalidId
        THEN HTTPException("update_order_status", 400, "Invalid ID")
             /\ UNCHANGED in_flight
        ELSE IF ~find_one(order_id, user.id)
        THEN HTTPException("update_order_status", 404, "Order not found")
             /\ UNCHANGED in_flight
        ELSE IF status = DELIVERED /\ orders[order_id].status # REACHED
        THEN HTTPException("update_order_status", 400,
                 "Order must be 'reached' before it can be 'delivered'")
             /\ UNCHANGED in_flight
        ELSE /\ in_flight[slot].op = "idle"
             /\ in_flight' = [in_flight EXCEPT ![slot] =
                    [op       |-> "update_order_status",
                     order_id |-> order_id,
                     read     |-> orders[order_id],
                     order    |-> [orders[order_id] EXCEPT
                                     !.status = status,
                                     !.delivered_at =
                                         IF status = DELIVERED THEN now ELSE @]]]
             /\ UNCHANGED <<db, now, resp>>

complete_order_find_without_status(token, order_id, file) ==
    LET user == get_current_user(token)
        slot == Slot(user.id, "order")
    IN  IF ~user.ok \/ file = NoFile \/ ~find_one(order_id, user.id)
        THEN HTTPException("complete_order", 400, "") /\ UNCHANGED in_flight
        ELSE /\ in_flight[slot].op = "idle"
             /\ in_flight' = [in_flight EXCEPT ![slot] =
                    [op       |-> "complete_order",
                     order_id |-> order_id,
                     read     |-> orders[order_id],
                     order    |-> [orders[order_id] EXCEPT
                                     !.proof_image = proof_path(order_id, file)]]]
             /\ UNCHANGED <<db, now, resp>>

\* complete_order up to its save.
complete_order_find(token, order_id, file) ==
    LET user == get_current_user(token)
        slot == Slot(user.id, "order")
    IN  IF ~user.ok
        THEN HTTPException("get_current_user", 401, user.detail)
             /\ UNCHANGED in_flight
        ELSE IF file = NoFile
        THEN HTTPException("complete_order", 422, "Field required")
             /\ UNCHANGED in_flight
        ELSE IF order_id = InvalidId
        THEN HTTPException("complete_order", 400, "Invalid ID")
             /\ UNCHANGED in_flight
        ELSE IF ~find_one(order_id, user.id)
        THEN HTTPException("complete_order", 404, "Order not found")
             /\ UNCHANGED in_flight
        ELSE IF orders[order_id].status # REACHED
        THEN HTTPException("complete_order", 400,
                 "Order must be 'reached' before completion")
             /\ UNCHANGED in_flight
        ELSE /\ in_flight[slot].op = "idle"
             /\ in_flight' = [in_flight EXCEPT ![slot] =
                    [op       |-> "complete_order",
                     order_id |-> order_id,
                     read     |-> orders[order_id],
                     order    |-> [orders[order_id] EXCEPT
                                     !.proof_image  = proof_path(order_id, file),
                                     !.status       = DELIVERED,
                                     !.delivered_at = now]]]
             /\ UNCHANGED <<db, now, resp>>

order_save_status_only(delivery_person_id, saved) ==
    LET slot == Slot(delivery_person_id, "order")
        req  == in_flight[slot]
    IN  /\ req.op \in {"update_order_status", "complete_order"}
        /\ IF ~saved
           THEN InternalServerError(req.op, slot)
           ELSE /\ orders' = [orders EXCEPT ![req.order_id].status = req.order.status]
                /\ resp' = Response(req.op, 200,
                      IF req.op = "complete_order"
                      THEN "Order completed successfully"
                      ELSE "Order status updated successfully")
                /\ in_flight' = [in_flight EXCEPT ![slot] = Idle]
                /\ UNCHANGED <<delivery_persons, location_tracking,
                               token_blacklist, now, issued>>

\* await order.save() of update_order_status and of complete_order, and the
\* return that follows it.
order_save(delivery_person_id, saved) ==
    LET slot == Slot(delivery_person_id, "order")
        req  == in_flight[slot]
    IN  /\ req.op \in {"update_order_status", "complete_order"}
        /\ IF ~saved
           THEN InternalServerError(req.op, slot)
           ELSE /\ orders' = [orders EXCEPT ![req.order_id] = req.order]
                /\ resp' = Response(req.op, 200,
                      IF req.op = "complete_order"
                      THEN "Order completed successfully"
                      ELSE "Order status updated successfully")
                /\ in_flight' = [in_flight EXCEPT ![slot] = Idle]
                /\ UNCHANGED <<delivery_persons, location_tracking,
                               token_blacklist, now, issued>>

(***************************************************************************)
(* The clock                                                               *)
(***************************************************************************)
Tick ==
    /\ now < MaxTicks * TickStep
    /\ now' = now + TickStep
    /\ UNCHANGED <<db, resp>>

(***************************************************************************)
(* Specifications                                                          *)
(*                                                                         *)
(* Spec: the order lifecycle.  It starts from the state in which both      *)
(* delivery persons have registered, logged in on day 0 and switched to    *)
(* active (SpecAuth reaches that state from the empty database), and runs  *)
(* the order endpoints, one request after the other, with pings from the   *)
(* edge of the geofence.                                                   *)
(***************************************************************************)
Session(a) == [sub |-> a, exp |-> TokenTTL, signed |-> TRUE]

RequestIds   == OrderIds \cup {InvalidId}
AssignInputs == AgentIds \cup {GhostId, NoAgent, MalformedAgentId}

Init ==
    /\ delivery_persons = [a \in AgentIds |->
                              [status |-> ACTIVE, is_location_on |-> FALSE]]
    /\ orders = <<>>
    /\ location_tracking = {}
    /\ token_blacklist = {}
    /\ now = 0
    /\ issued = {Session(a) : a \in AgentIds}
    /\ geofence_history = [o \in OrderIds |-> "never"]
    /\ ever_delivered = {}
    /\ flow = [o \in OrderIds |-> Off]
    /\ in_flight = NoRequests
    /\ resp = Response("startup", 0, "")

DoCreateOrder ==
    /\ \E a \in AssignInputs, d \in Destinations : create_order(a, d)
    /\ UNCHANGED <<history, in_flight>>

DoUpdateOrderStatus ==
    /\ \E t \in issued, o \in RequestIds, s \in OrderStatus :
          update_order_status(t, o, s)
    /\ UNCHANGED <<history, in_flight>>

DoTrackLocation ==
    /\ \E t \in issued : track_location(t, Edge)
    /\ UNCHANGED <<history, in_flight>>

DoCompleteOrder ==
    /\ \E t \in issued, o \in RequestIds, f \in Files \cup {NoFile} :
          complete_order(t, o, f)
    /\ UNCHANGED <<history, in_flight>>

Next ==
    \/ DoCreateOrder
    \/ DoUpdateOrderStatus
    \/ DoTrackLocation
    \/ DoCompleteOrder

Spec == Init /\ [][Next]_vars

(***************************************************************************)
(* SpecFlips: Spec, with a history variable that records per order whether *)
(* track_location has set it to reached ("flipped", and "flipped again"    *)
(* for every later time) and whether a manual status update has changed    *)
(* the order since ("updated").  The second delivery person has logged out *)
(* again; the first one pings from inside and from outside the geofence.   *)
(***************************************************************************)
InitFlips ==
    /\ delivery_persons = [a \in AgentIds |->
                              [status |-> ACTIVE, is_location_on |-> FALSE]]
    /\ orders = <<>>
    /\ location_tracking = {}
    /\ token_blacklist = {Session("a2")}
    /\ now = 0
    /\ issued = {Session(a) : a \in AgentIds}
    /\ geofence_history = [o \in OrderIds |-> "never"]
    /\ ever_delivered = {}
    /\ flow = [o \in OrderIds |-> Off]
    /\ in_flight = NoRequests
    /\ resp = Response("startup", 0, "")

GeofenceFlip(o) ==
    /\ resp'.op = "track_location"
    /\ o \in DOMAIN orders
    /\ orders[o].status # REACHED
    /\ orders'[o].status = REACHED

ManualUpdate(o) ==
    /\ resp'.op = "update_order_status"
    /\ resp'.status_code = 200
    /\ o \in DOMAIN orders
    /\ orders'[o] # orders[o]

Observe ==
    geofence_history' = [o \in OrderIds |->
        IF GeofenceFlip(o)
        THEN (IF geofence_history[o] = "never" THEN "flipped" ELSE "flipped again")
        ELSE IF ManualUpdate(o) /\ geofence_history[o] # "never"
        THEN "updated"
        ELSE geofence_history[o]]

CreateOrderObserved ==
    /\ \E a \in AgentIds \cup {NoAgent}, d \in Destinations : create_order(a, d)
    /\ Observe
    /\ UNCHANGED <<ever_delivered, flow, in_flight>>

UpdateOrderStatusObserved ==
    /\ \E t \in issued, o \in OrderIds, s \in OrderStatus :
          update_order_status(t, o, s)
    /\ Observe
    /\ UNCHANGED <<ever_delivered, flow, in_flight>>

TrackLocationObserved ==
    /\ \E t \in issued, p \in PingPoints : track_location(t, p)
    /\ Observe
    /\ UNCHANGED <<ever_delivered, flow, in_flight>>

CompleteOrderObserved ==
    /\ \E t \in issued, o \in OrderIds, f \in Files : complete_order(t, o, f)
    /\ Observe
    /\ UNCHANGED <<ever_delivered, flow, in_flight>>

NextFlips ==
    \/ CreateOrderObserved
    \/ UpdateOrderStatusObserved
    \/ TrackLocationObserved
    \/ CompleteOrderObserved

SpecFlips == InitFlips /\ [][NextFlips]_vars

(***************************************************************************)
(* SpecAuth: accounts and sessions, from the empty database.               *)
(***************************************************************************)
InitAuth ==
    /\ delivery_persons = <<>>
    /\ orders = <<>>
    /\ location_tracking = {}
    /\ token_blacklist = {}
    /\ now = 0
    /\ issued = {}
    /\ geofence_history = [o \in OrderIds |-> "never"]
    /\ ever_delivered = {}
    /\ flow = [o \in OrderIds |-> Off]
    /\ in_flight = NoRequests
    /\ resp = Response("startup", 0, "")

DoRegister == (\E a \in AgentIds : register(a)) /\ UNCHANGED <<history, in_flight>>

DoLogin ==
    /\ \E a \in AgentIds \cup {GhostId}, pw \in BOOLEAN : login(a, pw)
    /\ UNCHANGED <<history, in_flight>>

DoLogout == (\E t \in Credentials : logout(t)) /\ UNCHANGED <<history, in_flight>>

DoGetProfile == (\E t \in Credentials : get_profile(t)) /\ UNCHANGED <<history, in_flight>>

DoUpdateStatus ==
    /\ \E t \in Credentials, s \in DeliveryPersonStatus : update_status(t, s)
    /\ UNCHANGED <<history, in_flight>>

DoTick == Tick /\ UNCHANGED <<history, in_flight>>

NextAuth ==
    \/ DoRegister
    \/ DoLogin
    \/ DoLogout
    \/ DoGetProfile
    \/ DoUpdateStatus
    \/ DoTick

SpecAuth == InitAuth /\ [][NextAuth]_vars

(***************************************************************************)
(* SpecRace: the order endpoints with the requests of both delivery        *)
(* persons interleaved at their awaits.  ever_delivered records the orders *)
(* that have been stored as delivered.                                     *)
(***************************************************************************)
ObserveDelivered ==
    /\ ever_delivered' = ever_delivered \cup
          {o \in DOMAIN orders' : orders'[o].status = DELIVERED}
    /\ UNCHANGED <<geofence_history, flow>>

RaceCreateOrder ==
    /\ \E a \in AgentIds, d \in Destinations : create_order(a, d)
    /\ UNCHANGED in_flight
    /\ ObserveDelivered

RaceTrackLocationFind ==
    /\ \E t \in issued : track_location_find(t, Edge)
    /\ ObserveDelivered

RaceTrackLocationSave ==
    /\ \E a \in AgentIds, o \in OrderIds : track_location_save(a, o, TRUE)
    /\ ObserveDelivered

RaceTargets == {IN_TRANSIT, CANCELLED, DELIVERED}

RaceUpdateOrderStatusFind ==
    /\ \E t \in issued, o \in OrderIds, s \in RaceTargets :
          update_order_status_find(t, o, s)
    /\ ObserveDelivered

RaceCompleteOrderFind ==
    /\ \E t \in issued, o \in OrderIds, f \in Files :
          complete_order_find(t, o, f)
    /\ ObserveDelivered

RaceOrderSave ==
    /\ \E a \in AgentIds : order_save(a, TRUE)
    /\ ObserveDelivered

NextRace ==
    \/ RaceCreateOrder
    \/ RaceTrackLocationFind
    \/ RaceTrackLocationSave
    \/ RaceUpdateOrderStatusFind
    \/ RaceCompleteOrderFind
    \/ RaceOrderSave

SpecRace == Init /\ [][NextRace]_vars

(***************************************************************************)
(* SpecFail: the interleaved requests with saves that the database fails.  *)
(***************************************************************************)
FailTrackLocationSave ==
    /\ \E a \in AgentIds, o \in OrderIds : track_location_save(a, o, FALSE)
    /\ ObserveDelivered

FailOrderSave ==
    /\ \E a \in AgentIds : order_save(a, FALSE)
    /\ ObserveDelivered

NextFail ==
    \/ RaceCreateOrder
    \/ RaceTrackLocationFind
    \/ RaceTrackLocationSave
    \/ RaceUpdateOrderStatusFind
    \/ RaceCompleteOrderFind
    \/ RaceOrderSave
    \/ FailTrackLocationSave
    \/ FailOrderSave

SpecFail == Init /\ [][NextFail]_vars

(***************************************************************************)
(* SpecAssign: order creation while the delivery persons switch between    *)
(* active and inactive.                                                    *)
(***************************************************************************)
AssignCreateOrder ==
    /\ \E a \in AssignInputs, d \in Destinations : create_order(a, d)
    /\ UNCHANGED <<history, in_flight>>

AssignUpdateStatus ==
    /\ \E t \in issued, s \in DeliveryPersonStatus : update_status(t, s)
    /\ UNCHANGED <<history, in_flight>>

AssignUpdateLocationStatus ==
    /\ \E t \in issued, b \in BOOLEAN : update_location_status(t, b)
    /\ UNCHANGED <<history, in_flight>>

NextAssign ==
    \/ AssignCreateOrder
    \/ AssignUpdateStatus
    \/ AssignUpdateLocationStatus

SpecAssign == Init /\ [][NextAssign]_vars

(***************************************************************************)
(* Properties                                                              *)
(***************************************************************************)
Revoked == Response("get_current_user", 401, "Token has been revoked")

\* A step changes what the requests of delivery person a read and write:
\* their orders, their requests under way, their record, the revoked tokens
\* or the clock.
ViewChanged(a) ==
    \/ /\ orders' # orders
       /\ \/ \E o \in DOMAIN orders' \ DOMAIN orders :
                orders'[o].delivery_person_id = a
          \/ \E o \in DOMAIN orders :
                /\ a \in {orders[o].delivery_person_id,
                           orders'[o].delivery_person_id}
                /\ orders'[o] # orders[o]
    \/ /\ in_flight' # in_flight
       /\ \E k \in {"ping", "order"} :
             in_flight'[Slot(a, k)] # in_flight[Slot(a, k)]
    \/ delivery_persons'[a] # delivery_persons[a]
    \/ token_blacklist' # token_blacklist
    \/ now' # now

\* A step of an order request made with token t.
RequestStep(t) ==
    \/ track_location_find(t, Edge)
    \/ \E o \in OrderIds, saved \in BOOLEAN : track_location_save(t.sub, o, saved)
    \/ \E o \in OrderIds, s \in RaceTargets : update_order_status_find(t, o, s)
    \/ \E o \in OrderIds, f \in Files : complete_order_find(t, o, f)
    \/ \E saved \in BOOLEAN : order_save(t.sub, saved)

stored == <<delivery_persons, orders, location_tracking, token_blacklist>>

RejectedAsRevoked ==
    {t \in Credentials : get_current_user(t) = Unauthorized("Token has been revoked")}

ProtectedCall(t) ==
    \/ get_profile(t)
    \/ \E s \in DeliveryPersonStatus : update_status(t, s)

Owns(t, o) ==
    /\ get_current_user(t).ok
    /\ find_one(o, get_current_user(t).id)

(***************************************************************************)
(* SpecFlow: the order endpoints with the pings of verify_flow.py (at the  *)
(* destination and about 1 km away), and the history variable flow.        *)
(***************************************************************************)
FlowPoints == {Dest, Far}

At(location, order) ==
    GeoObject(location.longitude, location.latitude) = order.delivery_location

Farther(location, order) ==
    calculate_distance(location.latitude, location.longitude,
                       order.delivery_location[2], order.delivery_location[1])
        > Threshold

FlowCreateOrder ==
    /\ \E a \in AgentIds \cup {NoAgent}, d \in Destinations :
          /\ create_order(a, d)
          /\ flow' = [o \in OrderIds |->
                IF /\ o = new_order_id
                   /\ a \in DOMAIN delivery_persons
                   /\ delivery_persons[a].status = ACTIVE
                THEN 0 ELSE Off]
    /\ UNCHANGED <<geofence_history, ever_delivered, in_flight>>

FlowUpdateOrderStatus ==
    /\ \E t \in issued, o \in OrderIds, s \in OrderStatus :
          /\ update_order_status(t, o, s)
          /\ flow' = [x \in OrderIds |->
                IF x = o /\ Owns(t, o) /\ s = IN_TRANSIT /\ flow[o] = 0
                THEN 1 ELSE Off]
    /\ UNCHANGED <<geofence_history, ever_delivered, in_flight>>

FlowTrackLocation ==
    /\ \E t \in issued, p \in FlowPoints :
          /\ track_location(t, p)
          /\ flow' = [x \in OrderIds |->
                IF Owns(t, x) /\ flow[x] = 1 /\ Farther(p, orders[x])
                THEN 2
                ELSE IF Owns(t, x) /\ flow[x] = 2 /\ At(p, orders[x])
                THEN 3
                ELSE Off]
    /\ UNCHANGED <<geofence_history, ever_delivered, in_flight>>

FlowCompleteOrder ==
    /\ \E t \in issued, o \in OrderIds, f \in Files :
          /\ complete_order(t, o, f)
          /\ flow' = [x \in OrderIds |->
                IF x = o /\ Owns(t, o) /\ flow[o] = 3 THEN 4 ELSE Off]
    /\ UNCHANGED <<geofence_history, ever_delivered, in_flight>>

NextFlow ==
    \/ FlowCreateOrder
    \/ FlowUpdateOrderStatus
    \/ FlowTrackLocation
    \/ FlowCompleteOrder

SpecFlow == InitFlips /\ [][NextFlow]_vars

\* C1: in every reachable state an order's delivered_at is set if and only if
\* its status is delivered.
C1_DeliveredAtIffDelivered ==
    \A o \in DOMAIN orders :
        (orders[o].delivered_at # None) <=> (orders[o].status = DELIVERED)

\* C2: delivered and cancelled are terminal: no step changes the status of an
\* order that is delivered or cancelled.
C2_TerminalStatuses ==
    [][\A o \in DOMAIN orders :
          orders[o].status \in {DELIVERED, CANCELLED}
              => orders'[o].status = orders[o].status]_vars

\* C3: a manual update to delivered by the order's agent is rejected with 400
\* and leaves the orders alone unless the order is reached; a step makes an
\* order delivered only from reached.
C3_DeliveredOnlyFromReached ==
    [][/\ resp'.op = "update_order_status" =>
             \A t \in issued, o \in OrderIds :
                (/\ Owns(t, o)
                 /\ orders[o].status # REACHED
                 /\ update_order_status(t, o, DELIVERED))
                    => (resp'.status_code = 400 /\ orders' = orders)
       /\ \A o \in DOMAIN orders :
             (orders[o].status # DELIVERED /\ orders'[o].status = DELIVERED)
                 => orders[o].status = REACHED]_vars

C3_Witness ==
    /\ resp = Response("update_order_status", 400,
                       "Order must be 'reached' before it can be 'delivered'")
    /\ \E o \in DOMAIN orders : orders[o].status = IN_TRANSIT

C5_DeliveredHasProof ==
    \A o \in DOMAIN orders :
        orders[o].status = DELIVERED => orders[o].proof_image # NoProof

\* C6, as stated: a protected call with an issued token passes validation as
\* long as the token is not in the blacklist and is rejected as revoked once it
\* is; a token in the blacklist stays there.
C6_ValidUntilLogout ==
    [][\A t \in issued :
          /\ ProtectedCall(t)
                => IF t \in token_blacklist
                   THEN resp' = Revoked
                   ELSE resp'.status_code = 200
          /\ t \in token_blacklist => t \in token_blacklist']_vars

\* C6, amended: a protected call with an issued token passes validation as long
\* as the token is not in the blacklist and its expiry has not passed; once the
\* token is in the blacklist every call is rejected as revoked, before and after
\* its expiry, and the token stays in the blacklist.
C6_ValidUntilLogoutOrExpiry ==
    [][\A t \in issued :
          /\ ProtectedCall(t)
                => IF t \in token_blacklist
                   THEN resp' = Revoked
                   ELSE (now < t.exp => resp'.status_code = 200)
          /\ t \in token_blacklist => t \in token_blacklist']_vars

C6_Witness ==
    /\ resp = Revoked
    /\ token_blacklist # {}
    /\ \A t \in token_blacklist : t \in issued /\ now < t.exp

\* C7: a token in the blacklist that is also expired, malformed, without subject
\* or for an unknown delivery person is rejected as revoked, and the call
\* changes nothing.
C7_RevocationCheckedFirst ==
    [][\A t \in Credentials :
          (/\ t \in token_blacklist
           /\ \/ ~t.signed
              \/ t.exp <= now
              \/ t.sub \notin DOMAIN delivery_persons
           /\ ProtectedCall(t))
              => (resp' = Revoked /\ UNCHANGED db)]_vars

C7_Witness ==
    /\ resp = Revoked
    /\ token_blacklist # {}
    /\ token_blacklist \subseteq Forged

\* C8: a ping changes no order that is reached, delivered or cancelled; it sets
\* to reached every pending or in_transit order of the caller within the
\* threshold, changes nothing else, and reports the number of orders it changed,
\* so a further ping within the threshold reports none.
C8_PingFlipsOnce ==
    [][\A t \in issued, p \in PingPoints :
          track_location(t, p) =>
            LET user    == get_current_user(t)
                changed == {o \in DOMAIN orders : orders'[o] # orders[o]}
            IN  /\ \A o \in DOMAIN orders :
                      orders[o].status \in {REACHED, DELIVERED, CANCELLED}
                          => orders'[o] = orders[o]
                /\ \A o \in changed :
                      orders'[o] = [orders[o] EXCEPT !.status = REACHED]
                /\ user.ok => resp'.updated_orders = Cardinality(changed)
                /\ user.ok => \A o \in DOMAIN orders :
                      (/\ orders[o].delivery_person_id = user.id
                       /\ orders[o].status \in {PENDING, IN_TRANSIT}
                       /\ within_threshold(p, orders[o]))
                          => orders'[o].status = REACHED]_vars

C8_Witness ==
    /\ resp.op = "track_location"
    /\ resp.updated_orders = 0
    /\ \E o \in DOMAIN orders :
          /\ orders[o].status = REACHED
          /\ geofence_history[o] = "flipped"
          /\ location_tracking =
                {[delivery_person_id |-> orders[o].delivery_person_id,
                  current_location   |-> GeoObject(Edge.longitude, Edge.latitude),
                  timestamp          |-> now]}

\* C9, as stated: the geofence flips an order to reached at most once, and a
\* reached order never goes back to in_transit.
C9_FlippedAtMostOnce ==
    [][\A o \in DOMAIN orders :
          /\ GeofenceFlip(o) => geofence_history[o] = "never"
          /\ orders[o].status = REACHED => orders'[o].status # IN_TRANSIT]_vars

\* C9, amended: the geofence flips an order to reached a second time only after
\* a manual status update has changed the order in between, and a reached order
\* goes back to in_transit or pending only by a manual status update.
C9_FlippedOncePerManualUpdate ==
    [][\A o \in DOMAIN orders :
          /\ GeofenceFlip(o) => geofence_history[o] \in {"never", "updated"}
          /\ (/\ orders[o].status = REACHED
              /\ orders'[o].status \in {IN_TRANSIT, PENDING})
                 => ManualUpdate(o)]_vars

C9_Witness ==
    \E o \in DOMAIN orders :
        /\ geofence_history[o] = "flipped again"
        /\ orders[o].status = REACHED

\* C10: update_order_status and complete_order by an authenticated agent on an
\* order that is not assigned to that agent fail with 404 and leave the orders
\* alone, for every target status and every current status.
C10_NotOwned404 ==
    [][resp'.op \in {"update_order_status", "complete_order"} =>
       \A t \in issued, o \in DOMAIN orders :
          (/\ get_current_user(t).ok
           /\ orders[o].delivery_person_id # get_current_user(t).id)
              => /\ \A s \in OrderStatus :
                       update_order_status(t, o, s)
                           => (resp'.status_code = 404 /\ orders' = orders)
                 /\ \A f \in Files :
                       complete_order(t, o, f)
                           => (resp'.status_code = 404 /\ orders' = orders)]_vars

C10_Witness ==
    /\ resp = Response("complete_order", 404, "Order not found")
    /\ \A o \in OrderIds : o \in DOMAIN orders /\ orders[o].status = REACHED

\* C14: after test_flow's requests on a new order of an active delivery
\* person (update to in_transit, ping farther than 100 m, ping at the
\* destination, completion with a file) the order is in_transit, in_transit,
\* reached and delivered in turn, every request is answered 200, and at the end
\* delivered_at and proof_image are set.
C14_EndToEnd ==
    \A o \in OrderIds :
        flow[o] >= 1 =>
            /\ o \in DOMAIN orders
            /\ resp.status_code = 200
            /\ flow[o] \in {1, 2} => orders[o].status = IN_TRANSIT
            /\ flow[o] = 3 => orders[o].status = REACHED
            /\ flow[o] \in {1, 2, 3} =>
                  /\ orders[o].delivered_at = None
                  /\ orders[o].proof_image = NoProof
            /\ flow[o] = 4 =>
                  /\ orders[o].status = DELIVERED
                  /\ orders[o].delivered_at = now
                  /\ orders[o].proof_image \in {proof_path(o, f) : f \in Files}

C14_Witness ==
    \E o \in DOMAIN orders :
        /\ flow[o] = 4
        /\ resp = Response("complete_order", 200, "Order completed successfully")

\* C15: an authenticated ping sets an order to reached if the order is the
\* caller's, is pending or in_transit and lies at most 100 m from the ping, 100 m
\* itself included, and leaves every other order exactly as it was; a ping 101 m
\* or more away changes nothing.
C15_ReachedIffQualifies ==
    [][resp'.op = "track_location" =>
       \A t \in issued, p \in PingPoints :
          track_location(t, p) =>
             \A o \in DOMAIN orders :
                IF /\ orders[o].delivery_person_id = get_current_user(t).id
                   /\ orders[o].status \in {PENDING, IN_TRANSIT}
                   /\ ~Farther(p, orders[o])
                THEN orders'[o] = [orders[o] EXCEPT !.status = REACHED]
                ELSE orders'[o] = orders[o]]_vars

\* The ping points of SpecFlips lie exactly 100 m and more than 100 m from the
\* destination.
C15_Witness ==
    /\ resp.op = "track_location"
    /\ resp.updated_orders = 1
    /\ \E o \in DOMAIN orders :
          /\ orders[o].status = REACHED
          /\ calculate_distance(Edge.latitude, Edge.longitude,
                                orders[o].delivery_location[2],
                                orders[o].delivery_location[1]) = Threshold
          /\ Farther(Outside, orders[o])
          /\ \A l \in location_tracking :
                l.current_location = GeoObject(Edge.longitude, Edge.latitude)

\* C16: logout answers 200 for every token, revoked, expired, malformed or for
\* an unknown delivery person included; afterwards the tokens rejected as
\* revoked are those rejected before plus the token, so logging out a token
\* that is already revoked changes nothing.
C16_LogoutIdempotent ==
    [][\A t \in Credentials :
          logout(t) =>
             /\ resp' = Response("logout", 200, "Successfully logged out")
             /\ RejectedAsRevoked' = RejectedAsRevoked \cup {t}
             /\ t \in token_blacklist =>
                   /\ RejectedAsRevoked' = RejectedAsRevoked
                   /\ UNCHANGED db]_vars

C16_Witness ==
    /\ resp = Response("logout", 200, "Successfully logged out")
    /\ Garbage \in token_blacklist
    /\ \E t \in token_blacklist \cap issued : t.exp <= now
    /\ RejectedAsRevoked = token_blacklist

C18_ValidationGatesMutation ==
    [][/\ stored' # stored =>
             \E t \in issued :
                /\ get_current_user(t).ok
                /\ \/ \E o \in RequestIds, st \in OrderStatus :
                         update_order_status(t, o, st)
                   \/ \E o \in RequestIds, f \in Files : complete_order(t, o, f)
                   \/ track_location(t, Edge)
       /\ resp'.status_code = 401 => stored' = stored]_vars

\* C19: create_order naming a delivery person stores the order only if that
\* delivery person is stored and active when the request is handled; otherwise
\* it answers 404 or 400 and stores nothing.  An order that is stored, assigned
\* or not, starts pending with delivered_at and proof_image unset, and the
\* orders stored before are unchanged.
C19_AssignmentRequiresActive ==
    [][\A a \in AssignInputs, d \in Destinations :
          create_order(a, d) =>
             IF \/ a = NoAgent
                \/ /\ a \in DOMAIN delivery_persons
                   /\ delivery_persons[a].status = ACTIVE
             THEN /\ resp'.status_code = 200
                  /\ DOMAIN orders' = DOMAIN orders \cup {new_order_id}
                  /\ new_order_id \notin DOMAIN orders
                  /\ orders'[new_order_id].status = PENDING
                  /\ orders'[new_order_id].delivered_at = None
                  /\ orders'[new_order_id].proof_image = NoProof
                  /\ orders'[new_order_id].delivery_person_id = a
                  /\ \A o \in DOMAIN orders : orders'[o] = orders[o]
             ELSE /\ resp'.status_code \in {400, 404}
                  /\ orders' = orders]_vars

C19_Witness ==
    /\ resp = Response("create_order", 400,
                       "Delivery person is inactive and cannot be assigned orders")
    /\ \E a \in AgentIds :
          /\ delivery_persons[a].status = INACTIVE
          /\ \E o \in DOMAIN orders : orders[o].delivery_person_id = a

\* C11: under every interleaving, a step of a ping, a status update or a
\* completion of one delivery person leaves unchanged the orders of every other
\* delivery person and everything else the other's requests read: their
\* requests under way, their record, the revoked tokens and the clock.
C11_AgentsDoNotInteract ==
    [][\A b \in AgentIds :
          ViewChanged(b) =>
             \A t \in issued : t.sub # b => ~RequestStep(t)]_vars

C11_Witness ==
    \E b \in AgentIds, o \in DOMAIN orders :
        /\ orders[o].delivery_person_id = b
        /\ orders[o].status = IN_TRANSIT
        /\ in_flight[Slot(b, "ping")].op = "track_location"
        /\ resp.op = "update_order_status"
        /\ resp.status_code = 404

\* C12: a save that is based on a stale read, the stored order having changed
\* since the request read it, is not applied: the ping skips the order and the
\* status update or completion is answered 409.
C12_StaleWriteDetected ==
    [][\A a \in AgentIds :
          /\ \A o \in OrderIds :
                (/\ track_location_save(a, o, TRUE)
                 /\ orders[o] # in_flight[Slot(a, "ping")].active_orders[o])
                    => orders'[o] = orders[o]
          /\ (/\ order_save(a, TRUE)
              /\ orders[in_flight[Slot(a, "order")].order_id]
                     # in_flight[Slot(a, "order")].read)
                 => (orders' = orders /\ resp'.status_code = 409)]_vars

\* C13: a track_location request that has stored its ping ends with the
\* success summary, whatever happens to the saves of its orders.
C13_PingAlwaysSucceeds ==
    [][\A a \in AgentIds :
          (/\ in_flight[Slot(a, "ping")].op = "track_location"
           /\ in_flight'[Slot(a, "ping")].op = "idle")
              => /\ resp'.op = "track_location"
                 /\ resp'.status_code = 200]_vars

\* C20: under every interleaving, an order whose proof_image is set is or has
\* been stored as delivered.
C20_ProofOnlyAfterDelivered ==
    \A o \in DOMAIN orders :
        orders[o].proof_image # NoProof => o \in ever_delivered

C20_Witness ==
    \E o \in DOMAIN orders :
        /\ orders[o].proof_image # NoProof
        /\ orders[o].status = REACHED
        /\ o \in ever_delivered
        /\ resp.op = "track_location"

(***************************************************************************)
(* SpecDistance: calculate_distance on pairs of positions.  The positions  *)
(* of a pair lie within a few kilometres of each other, where the          *)
(* fixed-point arithmetic above is exact to the metre: around the order    *)
(* location of verify_flow.py, near the polar circle, in the southern and  *)
(* western hemispheres, and around latitude 0 and longitude 0.             *)
(***************************************************************************)
Position(latitude, longitude) == [latitude |-> latitude, longitude |-> longitude]

DistanceClusters ==
    { {Dest, Far, Edge, Outside},
      {Position(lat, lon) : lat \in {66000000, 66005000},
                            lon \in {25700000, 25715000}},
      {Position(lat, lon) : lat \in {-33900000, -33905000},
                            lon \in {-70600000, -70614000}},
      {Position(lat, lon) : lat \in {-3000, 3000}, lon \in {-8000, 8000}} }

DistancePairs == UNION {c \X c : c \in DistanceClusters}

InitDistance ==
    /\ delivery_persons = [a \in AgentIds |->
                              [status |-> ACTIVE, is_location_on |-> FALSE]]
    /\ orders = <<>>
    /\ location_tracking = {}
    /\ token_blacklist = {}
    /\ now = 0
    /\ issued = {Session(a) : a \in AgentIds}
    /\ geofence_history = [o \in OrderIds |-> "never"]
    /\ ever_delivered = {}
    /\ flow = [o \in OrderIds |-> Off]
    /\ in_flight = NoRequests
    /\ \E pair \in DistancePairs :
          resp = [op |-> "arguments", a |-> pair[1], b |-> pair[2]]

Measure ==
    /\ resp.op = "arguments"
    /\ resp' = [op       |-> "calculate_distance",
                a        |-> resp.a,
                b        |-> resp.b,
                distance |-> calculate_distance(resp.a.latitude, resp.a.longitude,
                                                resp.b.latitude, resp.b.longitude)]
    /\ UNCHANGED <<db, now, history, in_flight>>

SpecDistance == InitDistance /\ [][Measure]_vars

\* C24: calculate_distance(a, a) is 0 and calculate_distance(a, b) equals
\* calculate_distance(b, a), for every pair of positions a and b.
C24_DistanceSymmetric ==
    resp.op = "calculate_distance" =>
        /\ resp.distance = calculate_distance(resp.b.latitude, resp.b.longitude,
                                              resp.a.latitude, resp.a.longitude)
        /\ resp.a = resp.b => resp.distance = 0

C24_Witness ==
    /\ resp.op = "calculate_distance"
    /\ resp.a.latitude # resp.b.latitude
    /\ resp.a.longitude # resp.b.longitude
    /\ resp.distance > Threshold

\* C26: login leaves the revocation set unchanged, and every token that was
\* rejected as revoked before a login is rejected as revoked after it.
C26_LoginKeepsRevocations ==
    [][(\/ token_blacklist' # token_blacklist
        \/ RejectedAsRevoked' # RejectedAsRevoked)
          => ~ \E a \in AgentIds \cup {GhostId}, pw \in BOOLEAN : login(a, pw)]_vars

C26_Witness ==
    /\ resp = Response("login", 200, "")
    /\ \E t \in token_blacklist, u \in issued \ token_blacklist :
          /\ t \in issued
          /\ u.sub = t.sub
          /\ t.exp < u.exp
          /\ get_current_user(u).ok

\* A status update that asks for the status the order has, or for cancelled
\* while the order is pending, in_transit or reached.
SameOrCancel(o, s) ==
    \/ s = orders[o].status
    \/ s = CANCELLED /\ orders[o].status \in {PENDING, IN_TRANSIT, REACHED}

\* C28 as stated: for an order of the caller, every status update to the
\* status the order has succeeds, and every update to cancelled from pending,
\* in_transit or reached succeeds and leaves delivered_at and proof_image
\* unset.
C28_SameOrCancelAlwaysSucceeds ==
    [][\A t \in issued, o \in OrderIds, s \in OrderStatus :
          (/\ resp'.op = "update_order_status"
           /\ o \in DOMAIN orders
           /\ SameOrCancel(o, s)
           /\ Owns(t, o)
           /\ update_order_status(t, o, s))
             => /\ resp'.status_code = 200
                /\ orders'[o].status = s
                /\ s = CANCELLED /\ orders[o].status # CANCELLED
                      => /\ orders'[o].delivered_at = None
                         /\ orders'[o].proof_image = NoProof]_vars

\* C28, amended: for an order of the caller, a status update to the status
\* the order has succeeds unless that status is delivered, and an update to
\* cancelled from pending, in_transit or reached succeeds; both change
\* nothing of the order but its status, so delivered_at and proof_image stay
\* as they were.
C28_SameOrCancelSucceeds ==
    [][\A t \in issued, o \in OrderIds, s \in OrderStatus :
          (/\ resp'.op = "update_order_status"
           /\ o \in DOMAIN orders
           /\ SameOrCancel(o, s)
           /\ ~(s = DELIVERED /\ orders[o].status = DELIVERED)
           /\ Owns(t, o)
           /\ update_order_status(t, o, s))
             => /\ resp' = Response("update_order_status", 200,
                                    "Order status updated successfully")
                /\ orders' = [orders EXCEPT ![o].status = s]]_vars

C28_Witness ==
    /\ resp = Response("update_order_status", 200,
                       "Order status updated successfully")
    /\ \E o \in DOMAIN orders :
          /\ orders[o].status = CANCELLED
          /\ orders[o].delivered_at = None
          /\ orders[o].proof_image = NoProof

\* C21: a complete_order request changes the stored order in one step.  Until
\* its save nothing stored has changed; the step that ends the request with
\* "Order completed successfully" stores status delivered, delivered_at and
\* proof_image together and touches no other order, so every other request
\* reads the order either without or with all three.
C21_CompletionAtomic ==
    [][\A a \in AgentIds :
          LET slot == Slot(a, "order")
              req  == in_flight[slot]
          IN  /\ (req.op = "idle" /\ in_flight'[slot].op = "complete_order")
                    => orders' = orders
              /\ (/\ req.op = "complete_order"
                  /\ in_flight'[slot].op = "idle"
                  /\ resp' = Response("complete_order", 200,
                                      "Order completed successfully"))
                    => /\ orders'[req.order_id].status = DELIVERED
                       /\ orders'[req.order_id].delivered_at # None
                       /\ orders'[req.order_id].proof_image # NoProof
                       /\ \A o \in DOMAIN orders \ {req.order_id} :
                             orders'[o] = orders[o]]_vars

C21_Witness ==
    /\ resp = Response("complete_order", 200, "Order completed successfully")
    /\ \E o \in DOMAIN orders :
          /\ orders[o].status = DELIVERED
          /\ orders[o].delivered_at # None
          /\ orders[o].proof_image # NoProof
          /\ in_flight[Slot(orders[o].delivery_person_id, "order")].op = "idle"

(***************************************************************************)
(* SpecRevoke: the interleaved order requests of SpecRace together with    *)
(* logout.  The second delivery person has logged out before; the first    *)
(* one logs out while their requests are under way.                        *)
(***************************************************************************)
RevokeLogout ==
    /\ \E t \in issued : logout(t)
    /\ UNCHANGED in_flight
    /\ ObserveDelivered

NextRevoke ==
    \/ RaceCreateOrder
    \/ RaceTrackLocationFind
    \/ RaceTrackLocationSave
    \/ RaceUpdateOrderStatusFind
    \/ RaceCompleteOrderFind
    \/ RaceOrderSave
    \/ RevokeLogout

SpecRevoke == InitFlips /\ [][NextRevoke]_vars

\* The first step of a protected order request made with token t.
ProtectedStart(t) ==
    \/ track_location_find(t, Edge)
    \/ \E o \in OrderIds, s \in RaceTargets : update_order_status_find(t, o, s)
    \/ \E o \in OrderIds, f \in Files : complete_order_find(t, o, f)

\* C22: when logout has returned the token is stored as revoked, no step
\* removes it, and every protected request that starts while it is stored is
\* answered 401 "Token has been revoked" and changes nothing, whatever
\* requests with the same token are under way.
C22_RevocationObserved ==
    [][/\ \A t \in issued : logout(t) => t \in token_blacklist'
       /\ token_blacklist \subseteq token_blacklist'
       /\ \A t \in token_blacklist :
             ProtectedStart(t) => /\ resp' = Revoked
                                  /\ UNCHANGED <<stored, in_flight>>]_vars

C22_Witness ==
    /\ resp = Revoked
    /\ Session("a1") \in token_blacklist
    /\ in_flight[Slot("a1", "ping")].op = "track_location"

\* C30: once a token is stored as revoked, no request made with it writes an
\* order: the saves of a ping, a status update or a completion that passed
\* validation before the logout leave the orders unchanged.
C30_NoWriteAfterLogout ==
    [][\A a \in AgentIds :
          (/\ Session(a) \in token_blacklist
           /\ \/ \E o \in OrderIds : track_location_save(a, o, TRUE)
              \/ order_save(a, TRUE))
             => orders' = orders]_vars

(***************************************************************************)
(* SpecWide: SpecRace with status updates to every status, reached and     *)
(* pending included.                                                       *)
(***************************************************************************)
WideUpdateOrderStatusFind ==
    /\ \E t \in issued, o \in OrderIds, s \in OrderStatus :
          update_order_status_find(t, o, s)
    /\ ObserveDelivered

NextWide ==
    \/ RaceCreateOrder
    \/ RaceTrackLocationFind
    \/ RaceTrackLocationSave
    \/ WideUpdateOrderStatusFind
    \/ RaceCompleteOrderFind
    \/ RaceOrderSave

SpecWide == Init /\ [][NextWide]_vars

\* C25: track_location adds one to its count of updated orders exactly when
\* its save changes the stored status of the order to reached, so that the
\* updated_orders it returns is the number of orders it has changed to
\* reached.
C25_CountsChangesToReached ==
    [][\A a \in AgentIds, o \in OrderIds :
          track_location_save(a, o, TRUE) =>
             LET slot   == Slot(a, "ping")
                 before == in_flight[slot].updated_count
                 after  == IF in_flight'[slot].op = "idle"
                           THEN resp'.updated_orders
                           ELSE in_flight'[slot].updated_count
             IN  after - before =
                    IF orders[o].status # REACHED /\ orders'[o].status = REACHED
                    THEN 1 ELSE 0]_vars

\* C29: an order that complete_order has stored as delivered, with
\* delivered_at and proof_image, keeps all three when a ping that read the
\* order earlier saves it.
C29_CompletionNotLost ==
    [][\A a \in AgentIds, o \in OrderIds :
          (/\ o \in DOMAIN orders
           /\ orders[o].status = DELIVERED
           /\ orders[o].delivered_at # None
           /\ orders[o].proof_image # NoProof
           /\ track_location_save(a, o, TRUE))
             => /\ orders'[o].status = DELIVERED
                /\ orders'[o].delivered_at = orders[o].delivered_at
                /\ orders'[o].proof_image = orders[o].proof_image]_vars

(***************************************************************************)
(* SpecFrame: every endpoint that writes, one request after the other.     *)
(* The first delivery person is registered, active and logged in, works on *)
(* their orders and switches between active and inactive; the second one   *)
(* registers, logs in, switches status and location flag, and logs out.    *)
(***************************************************************************)
Courier == "a1"

InitFrame ==
    /\ delivery_persons = [a \in {Courier} |->
                              [status |-> ACTIVE, is_location_on |-> FALSE]]
    /\ orders = <<>>
    /\ location_tracking = {}
    /\ token_blacklist = {}
    /\ now = 0
    /\ issued = {Session(Courier)}
    /\ geofence_history = [o \in OrderIds |-> "never"]
    /\ ever_delivered = {}
    /\ flow = [o \in OrderIds |-> Off]
    /\ in_flight = NoRequests
    /\ resp = Response("startup", 0, "")

FrameRegister ==
    /\ \E a \in AgentIds : register(a)
    /\ UNCHANGED <<history, in_flight>>

FrameLogin ==
    /\ \E a \in AgentIds \ {Courier} : login(a, TRUE)
    /\ UNCHANGED <<history, in_flight>>

FrameLogout ==
    /\ \E t \in issued : t.sub # Courier /\ logout(t)
    /\ UNCHANGED <<history, in_flight>>

FrameUpdateStatus ==
    /\ \E t \in issued, s \in DeliveryPersonStatus : update_status(t, s)
    /\ UNCHANGED <<history, in_flight>>

FrameUpdateLocationStatus ==
    /\ \E t \in issued : t.sub # Courier /\ update_location_status(t, TRUE)
    /\ UNCHANGED <<history, in_flight>>

FrameCreateOrder ==
    /\ \E d \in Destinations : create_order(Courier, d)
    /\ UNCHANGED <<history, in_flight>>

FrameTrackLocation ==
    /\ \E p \in PingPoints : track_location(Session(Courier), p)
    /\ UNCHANGED <<history, in_flight>>

FrameUpdateOrderStatus ==
    /\ \E o \in OrderIds, s \in RaceTargets :
          update_order_status(Session(Courier), o, s)
    /\ UNCHANGED <<history, in_flight>>

FrameCompleteOrder ==
    /\ \E o \in OrderIds, f \in Files : complete_order(Session(Courier), o, f)
    /\ UNCHANGED <<history, in_flight>>

NextFrame ==
    \/ FrameRegister
    \/ FrameLogin
    \/ FrameLogout
    \/ FrameUpdateStatus
    \/ FrameUpdateLocationStatus
    \/ FrameCreateOrder
    \/ FrameTrackLocation
    \/ FrameUpdateOrderStatus
    \/ FrameCompleteOrder

SpecFrame == InitFrame /\ [][NextFrame]_vars

\* The document that track_location stores for a ping.
LocationTracking(delivery_person_id, location) ==
    [delivery_person_id |-> delivery_person_id,
     current_location   |-> GeoObject(location.longitude, location.latitude),
     timestamp          |-> now]

\* C23: no step removes or changes a stored ping, and every authenticated
\* track_location call adds the one document that carries the caller's id and
\* the (longitude, latitude) of the ping, whether or not an order is set to
\* reached.
C23_PingsAppendOnly ==
    [][/\ location_tracking \subseteq location_tracking'
       /\ \A t \in issued, p \in PingPoints :
             (/\ resp'.op = "track_location"
              /\ get_current_user(t).ok
              /\ track_location(t, p))
                => /\ LocationTracking(t.sub, p) \in location_tracking'
                   /\ location_tracking' \ location_tracking
                         \subseteq {LocationTracking(t.sub, p)}]_vars

C23_Witness ==
    /\ resp = Response("track_location", 200, "Location tracked successfully")
    /\ LocationTracking(Courier, Edge) \in location_tracking
    /\ LocationTracking(Courier, Far) \in location_tracking
    /\ \E o \in DOMAIN orders : orders[o].status = CANCELLED

\* A step of an endpoint other than track_location, update_order_status and
\* complete_order.
OtherEndpoint ==
    \/ \E a \in AgentIds : register(a)
    \/ \E a \in AgentIds, pw \in BOOLEAN : login(a, pw)
    \/ \E t \in issued : logout(t)
    \/ \E t \in issued, s \in DeliveryPersonStatus : update_status(t, s)
    \/ \E t \in issued, on \in BOOLEAN : update_location_status(t, on)
    \/ \E a \in AgentIds, d \in Destinations : create_order(a, d)

OrderEndpoint ==
    \/ \E t \in issued, p \in PingPoints : track_location(t, p)
    \/ \E t \in issued, o \in OrderIds, s \in OrderStatus :
          update_order_status(t, o, s)
    \/ \E t \in issued, o \in OrderIds, f \in Files : complete_order(t, o, f)

C31_CompletedAtMostOnce ==
    [][\A t \in issued, o \in OrderIds, f \in Files :
          (/\ resp'.op = "complete_order"
           /\ o \in DOMAIN orders
           /\ orders[o].proof_image # NoProof
           /\ complete_order(t, o, f))
             => resp'.status_code # 200]_vars

\* A stored ping of the order's delivery person from within the threshold of
\* the order's destination.
ProximityEvidence(pings, order) ==
    \E ping \in pings :
        /\ ping.delivery_person_id = order.delivery_person_id
        /\ ~Farther([latitude  |-> ping.current_location[2],
                     longitude |-> ping.current_location[1]], order)

\* C32 as stated: every order with status reached has a stored ping of its
\* delivery person within 100 m of its destination.
C32_ReachedHasEvidence ==
    \A o \in DOMAIN orders :
        orders[o].status = REACHED => ProximityEvidence(location_tracking, orders[o])

\* C32, amended: a step that sets an order to reached is either a
\* track_location step, after which a ping of the order's delivery person
\* within 100 m of its destination is stored, or a successful
\* update_order_status of the order's delivery person with target reached.
C32_ReachedByPingOrUpdate ==
    [][\A o \in DOMAIN orders :
          (orders[o].status # REACHED /\ orders'[o].status = REACHED)
             => \/ /\ resp'.op = "track_location"
                   /\ ProximityEvidence(location_tracking', orders[o])
                \/ \E t \in issued :
                      /\ t.sub = orders[o].delivery_person_id
                      /\ update_order_status(t, o, REACHED)]_vars

C32_Witness ==
    \E o \in DOMAIN orders :
        /\ orders[o].status = REACHED
        /\ geofence_history[o] = "flipped"
        /\ ProximityEvidence(location_tracking, orders[o])
        /\ \E ping \in location_tracking : ping.current_location[2] = Far.latitude

\* C33: an order that was created without a delivery person is pending and
\* has neither delivered_at nor proof_image, in every reachable state.
C33_UnassignedStaysPending ==
    \A o \in DOMAIN orders :
        orders[o].delivery_person_id = NoAgent
           => /\ orders[o].status = PENDING
              /\ orders[o].delivered_at = None
              /\ orders[o].proof_image = NoProof

C33_Witness ==
    /\ \E o \in DOMAIN orders : orders[o].delivery_person_id = NoAgent
    /\ resp = Response("update_order_status", 404, "Order not found")
    /\ location_tracking # {}

\* C34: no step removes an order or changes the delivery_person_id or the
\* delivery_location of a stored order, whichever request saves it and
\* however old the document it saves.
C34_AssignmentAndDestinationFixed ==
    [][\A o \in DOMAIN orders :
          /\ o \in DOMAIN orders'
          /\ orders'[o].delivery_person_id = orders[o].delivery_person_id
          /\ orders'[o].delivery_location = orders[o].delivery_location]_vars

\* A ping has saved the copy it read earlier while a completion of the same
\* order is under way.
C34_Witness ==
    /\ resp.op = "track_location"
    /\ resp.updated_orders = 1
    /\ \E o \in DOMAIN orders :
          /\ orders[o].status = REACHED
          /\ orders[o].delivery_person_id \in AgentIds
          /\ orders[o].delivery_location = GeoObject(Dest.longitude, Dest.latitude)
          /\ in_flight[Slot(orders[o].delivery_person_id, "order")].op
                = "complete_order"

\* C35: a logout changes the outcome of validation for no credential other
\* than the one it was given: every other token, of the same delivery person
\* or of another one, is accepted or rejected after the logout exactly as
\* before it.
C35_LogoutRevokesOneToken ==
    [][\A u \in Credentials :
          get_current_user(u)' # get_current_user(u)
             => \A t \in Credentials \ {u} : ~logout(t)]_vars

C35_Witness ==
    /\ resp = Response("logout", 200, "Successfully logged out")
    /\ \E t \in token_blacklist \cap issued :
          \E u \in issued \ token_blacklist :
             u.sub = t.sub /\ get_current_user(u).ok

\* The same with the live token belonging to the other delivery person.
LogoutSparesOtherAgent ==
    /\ resp = Response("logout", 200, "Successfully logged out")
    /\ \E t \in token_blacklist \cap issued :
          \E u \in issued \ token_blacklist :
             u.sub # t.sub /\ get_current_user(u).ok

====
